---- MODULE Spec2Model ----
(***************************************************************************)
(* A model of the goblimey/grpc secure greeter: the startup sequence of    *)
(* secure_greeter_server, the startup and single call of                   *)
(* secure_greeter_client, the TLS handshake that gates every connection,   *)
(* and the OAUTH interceptor that gates every call.                        *)
(***************************************************************************)
EXTENDS Integers, Sequences, FiniteSets, TLC

VARIABLES
    spc,            \* server: position in main
    verbose,        \* server: -v flag
    certfile,       \* server: -certfile flag
    keyfile,        \* server: -keyfile flag
    lis,            \* server: TRUE once net.Listen has created the socket
    cert,           \* server: the tls.Certificate put into tls.Config
    loadErr,        \* server: TRUE iff tls.LoadX509KeyPair returned an error
    loadCalled,     \* server: TRUE once tls.LoadX509KeyPair has been called
    serveCalled,    \* server: TRUE once s.Serve(lis) has been called
    slog,           \* server: the fatal log line, "" if none
    cpc,            \* client: position in main
    cserver,        \* client: -server flag
    ccertfile,      \* client: -certfile flag
    cargs,          \* client: flag.Args(), the positional arguments
    token,          \* client: the oauth2.Token unmarshalled from tokenText
    caCertPool,     \* client: the certificates in tlsConfig.RootCAs
    clog,           \* client: the lines written by log.Printf / log.Fatalf
    conn,           \* per connection: idle, accepted, secure or failed
    call,           \* per connection: the unary call in flight or completed
    interceptorCalls, \* per connection: invocations of OAuthUnaryInterceptor
    handlerCalls,   \* per connection: invocations of server.SayHello
    acceptedCalls   \* calls whose authorization validateOAUTHToken accepted

svars == <<spc, verbose, certfile, keyfile, lis, cert, loadErr, loadCalled,
           serveCalled, slog>>
cvars == <<cpc, cserver, ccertfile, cargs, token, caCertPool, clog>>
nvars == <<conn, call, interceptorCalls, handlerCalls, acceptedCalls>>
vars == <<svars, cvars, nvars>>

----------------------------------------------------------------------------
(* Bounds *)

\* longest list of authorization values a peer presents on one call
MaxHeaders == 2

\* calls the other peer makes in one run
MaxCalls == 1

----------------------------------------------------------------------------
(* The files on disk and what the library calls make of them *)

\* the values tried for secure_greeter_server's -certfile and -keyfile and
\* for secure_greeter_client's -certfile
ServerCertPaths == {"", "nofile", "garbage", "local.crt", "mydomain.crt"}

ServerKeyPaths == {"", "nofile", "unreadable", "local.key"}

ClientCertPaths == {"", "nofile", "unreadable", "garbage", "local.crt",
                    "mydomain.crt"}

\* os.Stat(p) does not report IsNotExist
FileExists(p) == p \in {"unreadable", "garbage", "local.crt", "local.key",
                        "mydomain.crt"}

\* ioutil.ReadFile(p) returns no error
FileReadable(p) == p \in {"garbage", "local.crt", "local.key", "mydomain.crt"}

NoCert == [id |-> "none", cn |-> ""]

\* the PEM blocks of a readable file
PEMKind(p) == CASE p \in {"local.crt", "mydomain.crt"} -> "CERTIFICATE"
                [] p = "local.key" -> "PRIVATE KEY"
                [] OTHER -> "NONE"

PEMCert(p) == CASE p = "local.crt" -> [id |-> "local", cn |-> "localhost"]
                [] p = "mydomain.crt" -> [id |-> "mydomain", cn |-> "mydomain.com"]
                [] OTHER -> NoCert

PEMKeyId(p) == IF p = "local.key" THEN "local" ELSE "none"

\* tls.LoadX509KeyPair(certFile, keyFile): the certificate and the error
LoadX509KeyPair(cf, kf) ==
    IF /\ FileReadable(cf) /\ FileReadable(kf)
       /\ PEMKind(cf) = "CERTIFICATE" /\ PEMKind(kf) = "PRIVATE KEY"
       /\ PEMCert(cf).id = PEMKeyId(kf)
    THEN [cert |-> PEMCert(cf), err |-> FALSE]
    ELSE [cert |-> NoCert, err |-> TRUE]

\* x509.CertPool.AppendCertsFromPEM(data) on the bytes of file p
AppendCertsFromPEM(p) ==
    IF PEMKind(p) = "CERTIFICATE" THEN {PEMCert(p)} ELSE {}

----------------------------------------------------------------------------
(* secure_greeter_server: main *)

\* flag.Parse()
ServerParseFlags ==
    /\ spc = "start"
    /\ \E v \in BOOLEAN, cf \in ServerCertPaths, kf \in ServerKeyPaths :
          /\ verbose' = v
          /\ certfile' = cf
          /\ keyfile' = kf
    /\ spc' = "parsed"
    /\ UNCHANGED <<lis, cert, loadErr, loadCalled, serveCalled, slog>>
    /\ UNCHANGED <<cvars, nvars>>

\* lis, err := net.Listen("tcp", portStr); the port may be in use
ServerListen ==
    /\ spc = "parsed"
    /\ \E ok \in BOOLEAN :
          IF ok
          THEN /\ lis' = TRUE
               /\ spc' = "listening"
               /\ slog' = slog
          ELSE /\ lis' = lis
               /\ spc' = "fatal"
               /\ slog' = "failed to listen"
    /\ UNCHANGED <<verbose, certfile, keyfile, cert, loadErr, loadCalled,
                   serveCalled>>
    /\ UNCHANGED <<cvars, nvars>>

\* the three checks that precede tls.LoadX509KeyPair
ServerCheckFilesNoKeyCheck ==
    /\ spc = "listening"
    /\ IF certfile = "" \/ keyfile = ""
       THEN /\ spc' = "fatal"
            /\ slog' = "you must specify the cert file and the key file"
       ELSE IF ~FileExists(certfile)
       THEN /\ spc' = "fatal"
            /\ slog' = "cannot open the cert file"
       ELSE /\ spc' = "checked"
            /\ slog' = slog
    /\ UNCHANGED <<verbose, certfile, keyfile, lis, cert, loadErr,
                   loadCalled, serveCalled>>
    /\ UNCHANGED <<cvars, nvars>>

ServerCheckFiles ==
    /\ spc = "listening"
    /\ IF certfile = "" \/ keyfile = ""
       THEN /\ spc' = "fatal"
            /\ slog' = "you must specify the cert file and the key file"
       ELSE IF ~FileExists(keyfile)
       THEN /\ spc' = "fatal"
            /\ slog' = "cannot open the key file"
       ELSE IF ~FileExists(certfile)
       THEN /\ spc' = "fatal"
            /\ slog' = "cannot open the cert file"
       ELSE /\ spc' = "checked"
            /\ slog' = slog
    /\ UNCHANGED <<verbose, certfile, keyfile, lis, cert, loadErr,
                   loadCalled, serveCalled>>
    /\ UNCHANGED <<cvars, nvars>>

\* cert, err := tls.LoadX509KeyPair(...); err is not looked at
ServerLoadKeyPair ==
    /\ spc = "checked"
    /\ loadCalled' = TRUE
    /\ cert' = LoadX509KeyPair(certfile, keyfile).cert
    /\ loadErr' = LoadX509KeyPair(certfile, keyfile).err
    /\ spc' = "loaded"
    /\ UNCHANGED <<verbose, certfile, keyfile, lis, serveCalled, slog>>
    /\ UNCHANGED <<cvars, nvars>>

ServerOptsNoCreds == {"UnaryInterceptor"}

\* the server options appended to opts before grpc.NewServer(opts...)
ServerOpts == {"UnaryInterceptor", "Creds"}

\* s := grpc.NewServer(opts...); ...; s.Serve(lis)
ServerServe ==
    /\ spc = "loaded"
    /\ serveCalled' = TRUE
    /\ spc' = "serving"
    /\ UNCHANGED <<verbose, certfile, keyfile, lis, cert, loadErr,
                   loadCalled, slog>>
    /\ UNCHANGED <<cvars, nvars>>

----------------------------------------------------------------------------
(* The greeter service and the OAUTH interceptor *)

\* the literal validateOAUTHToken compares each header with
ExpectedBearer == "Bearer rTO69tZATgSqamjQn7v9HA"

\* the authorization values a peer may present
HeaderValues == {"Bearer rTO69tZATgSqamjQn7v9HA",
                 "bearer rto69tzatgsqamjqn7v9ha",
                 "Bearer rTO69tZATgSqamjQn7v9H",
                 "Bearer rTO69tZATSgSqamjQn7v9HA"}

HeaderLists == UNION {[1..n -> HeaderValues] : n \in 0..MaxHeaders}

Names == {"", "world"}

\* SayHello that greets the default name when the request names nobody
SayHelloDefaultsEmpty(name) ==
    IF name = "" THEN "Hello world" ELSE "Hello " \o name

\* server.SayHello: the reply message
SayHello(name) == "Hello " \o name

\* the for loop of validateOAUTHToken from index i on; err = "" is nil,
\* visited is the number of headers the loop has looked at
RECURSIVE ScanHeaders(_, _, _)
ScanHeaders(authHeaders, v, i) ==
    IF i > Len(authHeaders)
    THEN [uid |-> 0, err |-> "no valid authorization header",
          visited |-> Len(authHeaders)]
    ELSE IF v /\ authHeaders[i] = ExpectedBearer
    THEN [uid |-> 2, err |-> "", visited |-> i]
    ELSE ScanHeaders(authHeaders, v, i + 1)

validateOAUTHTokenAcceptsEmpty(authHeaders, v) ==
    IF Len(authHeaders) = 0
    THEN [uid |-> 2, err |-> "", visited |-> 0]
    ELSE ScanHeaders(authHeaders, v, 1)

validateOAUTHToken(authHeaders, v) == ScanHeaders(authHeaders, v, 1)

\* the literal ValidationOAUTHToken of the second server variant compares with
ExpectedBearerVariant == "Bearer rTO69tZATSgSqamjQn7v9HA"

\* the for loop of ValidationOAUTHToken from index i on
RECURSIVE ScanHeadersVariant(_, _, _)
ScanHeadersVariant(authHeaders, v, i) ==
    IF i > Len(authHeaders)
    THEN [uid |-> 0, err |-> "no valid authorization header",
          visited |-> Len(authHeaders)]
    ELSE IF v /\ authHeaders[i] = ExpectedBearerVariant
    THEN [uid |-> 2, err |-> "", visited |-> i]
    ELSE ScanHeadersVariant(authHeaders, v, i + 1)

\* ValidationOAUTHToken of the second server variant
ValidationOAUTHToken(authHeaders, v) == ScanHeadersVariant(authHeaders, v, 1)

\* the outcome of a call that has not been answered
\* (steps lists what the interceptor did, in order; visited is the number of
\* authorization values the validation loop went through)
NoOutcome == [status |-> "", msg |-> "", reply |-> "", userId |-> 0,
              validated |-> FALSE, accepted |-> FALSE, handled |-> 0,
              steps |-> <<>>, visited |-> 0]

\* OAuthUnaryInterceptor that hands every call on to the handler
OAuthUnaryInterceptorAlwaysHandles(hasMd, authHeaders, name, v) ==
    LET r == validateOAUTHToken(authHeaders, v)
    IN  [status |-> "OK", msg |-> "", reply |-> SayHello(name),
         userId |-> r.uid, validated |-> hasMd,
         accepted |-> hasMd /\ r.err = "", handled |-> 1,
         steps |-> <<"metadata", "validate", "user_id", "handler">>,
         visited |-> r.visited]

\* OAuthUnaryInterceptor that calls the handler before it attaches the user id
OAuthUnaryInterceptorHandlerFirst(hasMd, authHeaders, name, v) ==
    IF ~hasMd
    THEN [NoOutcome EXCEPT !.status = "Unauthenticated",
                           !.msg = "no metadata in context",
                           !.steps = <<"metadata">>]
    ELSE LET r == validateOAUTHToken(authHeaders, v)
         IN  IF r.err # ""
             THEN [NoOutcome EXCEPT !.status = "Unauthenticated",
                                    !.msg = "authentication failed - " \o r.err,
                                    !.validated = TRUE,
                                    !.steps = <<"metadata", "validate">>,
                                    !.visited = r.visited]
             ELSE [status |-> "OK", msg |-> "", reply |-> SayHello(name),
                   userId |-> 0, validated |-> TRUE, accepted |-> TRUE,
                   handled |-> 1,
                   steps |-> <<"metadata", "validate", "handler", "user_id">>,
                   visited |-> r.visited]

\* OAuthUnaryInterceptor that reports the first presented value in its error
OAuthUnaryInterceptorEchoesHeader(hasMd, authHeaders, name, v) ==
    IF ~hasMd
    THEN [NoOutcome EXCEPT !.status = "Unauthenticated",
                           !.msg = "no metadata in context",
                           !.steps = <<"metadata">>]
    ELSE LET r == validateOAUTHToken(authHeaders, v)
         IN  IF r.err # ""
             THEN [NoOutcome EXCEPT !.status = "Unauthenticated",
                                    !.msg = "authentication failed - " \o
                                            (IF authHeaders = <<>> THEN r.err
                                             ELSE authHeaders[1]),
                                    !.validated = TRUE,
                                    !.steps = <<"metadata", "validate">>,
                                    !.visited = r.visited]
             ELSE [status |-> "OK", msg |-> "", reply |-> SayHello(name),
                   userId |-> r.uid, validated |-> TRUE, accepted |-> TRUE,
                   handled |-> 1,
                   steps |-> <<"metadata", "validate", "user_id", "handler">>,
                   visited |-> r.visited]

\* OAuthUnaryInterceptor that calls the handler and returns no reply
OAuthUnaryInterceptorDropsReply(hasMd, authHeaders, name, v) ==
    IF ~hasMd
    THEN [NoOutcome EXCEPT !.status = "Unauthenticated",
                           !.msg = "no metadata in context",
                           !.steps = <<"metadata">>]
    ELSE LET r == validateOAUTHToken(authHeaders, v)
         IN  IF r.err # ""
             THEN [NoOutcome EXCEPT !.status = "Unauthenticated",
                                    !.msg = "authentication failed - " \o r.err,
                                    !.validated = TRUE,
                                    !.steps = <<"metadata", "validate">>,
                                    !.visited = r.visited]
             ELSE [status |-> "OK", msg |-> "", reply |-> "",
                   userId |-> r.uid, validated |-> TRUE, accepted |-> TRUE,
                   handled |-> 1,
                   steps |-> <<"metadata", "validate", "user_id", "handler">>,
                   visited |-> r.visited]

\* OAuthUnaryInterceptor(ctx, req, info, handler) with handler = SayHello:
\* hasMd is the ok of metadata.FromContext, authHeaders is md["authorization"]
OAuthUnaryInterceptor(hasMd, authHeaders, name, v) ==
    IF ~hasMd
    THEN [NoOutcome EXCEPT !.status = "Unauthenticated",
                           !.msg = "no metadata in context",
                           !.steps = <<"metadata">>]
    ELSE LET r == validateOAUTHToken(authHeaders, v)
         IN  IF r.err # ""
             THEN [NoOutcome EXCEPT !.status = "Unauthenticated",
                                    !.msg = "authentication failed - " \o r.err,
                                    !.validated = TRUE,
                                    !.steps = <<"metadata", "validate">>,
                                    !.visited = r.visited]
             ELSE [status |-> "OK", msg |-> "", reply |-> SayHello(name),
                   userId |-> r.uid, validated |-> TRUE, accepted |-> TRUE,
                   handled |-> 1,
                   steps |-> <<"metadata", "validate", "user_id", "handler">>,
                   visited |-> r.visited]

----------------------------------------------------------------------------
(* Connections and the TLS handshake *)

Conns == {"client", "peer"}

NoCall == [phase |-> "none", hasMd |-> FALSE, headers |-> <<>>, name |-> "",
           out |-> NoOutcome]

\* the client's verification of the certificate the server presents:
\* chain rooted in tlsConfig.RootCAs, subject equal to the dialed name
VerifyServerCertNoNameCheck(c, pool, name) == c \in pool

VerifyServerCert(c, pool, name) == c \in pool /\ c.cn = name

\* a TCP connection is made to the listening socket and accepted by Serve,
\* or the client's connection is refused
Connect(c) ==
    /\ conn[c] = "idle"
    /\ c = "client" => cpc = "dialed"
    /\ \/ /\ spc = "serving"
          /\ conn' = [conn EXCEPT ![c] = "accepted"]
       \/ /\ c = "client"
          /\ spc = "fatal" \/ ~lis
          /\ conn' = [conn EXCEPT ![c] = "failed"]
    /\ UNCHANGED <<call, interceptorCalls, handlerCalls, acceptedCalls>>
    /\ UNCHANGED <<svars, cvars>>

\* the handshake of grpccred.NewTLS(&config) on an accepted connection; the
\* other peer verifies the server as it likes, bytes that are not a
\* handshake fail it
Handshake(c) ==
    /\ spc = "serving"
    /\ "Creds" \in ServerOpts
    /\ conn[c] = "accepted"
    /\ \E peerOk \in BOOLEAN :
          LET clientOk == IF c = "client"
                          THEN VerifyServerCert(cert, caCertPool, cserver)
                          ELSE peerOk /\ call[c].phase # "sent"
          IN  conn' = [conn EXCEPT ![c] =
                         IF cert # NoCert /\ clientOk THEN "secure"
                                                      ELSE "failed"]
    /\ UNCHANGED <<call, interceptorCalls, handlerCalls, acceptedCalls>>
    /\ UNCHANGED <<svars, cvars>>

\* the connections whose calls the server dispatches
Dispatchable(c) ==
    IF "Creds" \in ServerOpts THEN conn[c] = "secure"
                              ELSE conn[c] = "accepted"

\* the other peer sends a SayHello with metadata of its choice
PeerSend ==
    /\ conn["peer"] \in {"accepted", "secure"}
    /\ call["peer"].phase # "sent"
    /\ interceptorCalls["peer"] < MaxCalls
    /\ \E hasMd \in BOOLEAN, h \in HeaderLists, n \in Names :
          /\ ~hasMd => h = <<>>
          /\ call' = [call EXCEPT !["peer"] =
                        [phase |-> "sent", hasMd |-> hasMd, headers |-> h,
                         name |-> n, out |-> NoOutcome]]
    /\ UNCHANGED <<conn, interceptorCalls, handlerCalls, acceptedCalls>>
    /\ UNCHANGED <<svars, cvars>>

\* a dispatch that keeps the user id in one place shared by all calls
ServerHandleCallSharedUserId(c) ==
    /\ spc = "serving"
    /\ Dispatchable(c)
    /\ call[c].phase = "sent"
    /\ LET q == call[c]
           r == OAuthUnaryInterceptor(q.hasMd, q.headers, q.name, verbose)
       IN  /\ call' = [d \in Conns |->
                         IF d = c
                         THEN [q EXCEPT !.phase = "done", !.out = r]
                         ELSE IF call[d].phase = "done"
                         THEN [call[d] EXCEPT !.out.userId = r.userId]
                         ELSE call[d]]
           /\ interceptorCalls' = [interceptorCalls EXCEPT ![c] = @ + 1]
           /\ handlerCalls' = [handlerCalls EXCEPT ![c] = @ + r.handled]
           /\ acceptedCalls' = acceptedCalls + (IF r.accepted THEN 1 ELSE 0)
    /\ UNCHANGED conn
    /\ UNCHANGED <<svars, cvars>>

\* the server dispatches a call: the interceptor, and through it the handler
ServerHandleCall(c) ==
    /\ spc = "serving"
    /\ Dispatchable(c)
    /\ call[c].phase = "sent"
    /\ LET q == call[c]
           r == IF "UnaryInterceptor" \in ServerOpts
                THEN OAuthUnaryInterceptor(q.hasMd, q.headers, q.name, verbose)
                ELSE [NoOutcome EXCEPT !.status = "OK",
                                       !.reply = SayHello(q.name),
                                       !.handled = 1,
                                       !.steps = <<"handler">>]
       IN  /\ call' = [call EXCEPT ![c] = [q EXCEPT !.phase = "done",
                                                    !.out = r]]
           /\ interceptorCalls' =
                 [interceptorCalls EXCEPT ![c] =
                     @ + (IF "UnaryInterceptor" \in ServerOpts THEN 1 ELSE 0)]
           /\ handlerCalls' = [handlerCalls EXCEPT ![c] = @ + r.handled]
           /\ acceptedCalls' = acceptedCalls + (IF r.accepted THEN 1 ELSE 0)
    /\ UNCHANGED conn
    /\ UNCHANGED <<svars, cvars>>

----------------------------------------------------------------------------
(* secure_greeter_client: main *)

ServerNames == {"localhost", "mydomain.com"}

ArgLists == {<<>>, <<"alice">>, <<"alice", "bob">>}

defaultName == "world"

\* the fixed token literal, as the key/value pairs of its JSON object
tokenText == <<  <<"access_token", "rTO69tZATgSqamjQn7v9HA">>,
                 <<"expires_in", "3600">>,
                 <<"refresh_token", "xBqf2OWbT_KvWW8LHOPF0A">>,
                 <<"scope", "everything">>,
                 <<"token_type", "Bearer">>  >>

\* the fixed token literal of greeter_client
greeterClientTokenText ==
    <<  <<"access_token", "rTO69tZATSgSqamjQn7v9HA">>,
        <<"expires_in", "3600">>,
        <<"refresh_token", "xBqf2OWbT_KvWW8LHOPF0A">>,
        <<"scope", "everything">>,
        <<"token_type", "Bearer">>  >>

\* the value of key k in a JSON object, "" when the key is absent
JsonField(text, k) ==
    IF \E i \in 1..Len(text) : text[i][1] = k
    THEN text[CHOOSE i \in 1..Len(text) : text[i][1] = k][2]
    ELSE ""

NoToken == [AccessToken |-> "", TokenType |-> "", RefreshToken |-> ""]

\* json.Unmarshal returns an error: the text is not a list of key/value pairs
JsonMalformed(text) == \E i \in 1..Len(text) : Len(text[i]) # 2

\* json.Unmarshal([]byte(tokenText), &token): the fields oauth2.Token tags
JsonUnmarshalToken(text) ==
    [AccessToken |-> JsonField(text, "access_token"),
     TokenType |-> JsonField(text, "token_type"),
     RefreshToken |-> JsonField(text, "refresh_token")]

\* credentials that send the access token without its type
OauthAccessMetadataNoType(tok) == <<tok.AccessToken>>

\* the metadata oauth.NewOauthAccess(&token) attaches to a call
OauthAccessMetadata(tok) == <<tok.TokenType \o " " \o tok.AccessToken>>

\* name := defaultName; if len(flag.Args()) > 1 { name = flag.Arg(1) }
\* (flag.Arg(1) is the second positional argument)
RequestName(args) == IF Len(args) > 1 THEN args[2] ELSE defaultName

\* flag.Parse()
ClientParseFlags ==
    /\ cpc = "start"
    /\ \E s \in ServerNames, cf \in ClientCertPaths, a \in ArgLists :
          /\ cserver' = s
          /\ ccertfile' = cf
          /\ cargs' = a
    /\ cpc' = "parsed"
    /\ UNCHANGED <<token, caCertPool, clog>>
    /\ UNCHANGED <<svars, nvars>>

\* unmarshal the token literal, fatal on error, and make the per-RPC
\* credentials from it
ClientGetToken ==
    /\ cpc = "parsed"
    /\ IF JsonMalformed(tokenText)
       THEN /\ token' = token
            /\ cpc' = "fatal"
            /\ clog' = Append(clog, "error unmarshalling JSON from OAUTH token")
       ELSE /\ token' = JsonUnmarshalToken(tokenText)
            /\ cpc' = "token"
            /\ clog' = clog
    /\ UNCHANGED <<cserver, ccertfile, cargs, caCertPool>>
    /\ UNCHANGED <<svars, nvars>>

\* loading the CA certificate with the error of ReadFile not looked at
ClientLoadCAIgnoresError ==
    /\ cpc = "token"
    /\ cpc' = "capool"
    /\ caCertPool' = IF FileReadable(ccertfile)
                     THEN AppendCertsFromPEM(ccertfile) ELSE {}
    /\ clog' = clog
    /\ UNCHANGED <<cserver, ccertfile, cargs, token>>
    /\ UNCHANGED <<svars, nvars>>

\* caCert, err := ioutil.ReadFile(*certfile); fatal on error; else the pool
ClientLoadCA ==
    /\ cpc = "token"
    /\ IF ~FileReadable(ccertfile)
       THEN /\ cpc' = "fatal"
            /\ clog' = Append(clog, "open: cannot read the certificate file")
            /\ caCertPool' = caCertPool
       ELSE /\ cpc' = "capool"
            /\ caCertPool' = AppendCertsFromPEM(ccertfile)
            /\ clog' = clog
    /\ UNCHANGED <<cserver, ccertfile, cargs, token>>
    /\ UNCHANGED <<svars, nvars>>

\* conn, err := grpc.Dial(address, opts...): returns without waiting for
\* the connection
ClientDial ==
    /\ cpc = "capool"
    /\ cpc' = "dialed"
    /\ UNCHANGED <<cserver, ccertfile, cargs, token, caCertPool, clog>>
    /\ UNCHANGED <<svars, nvars>>

\* r, err := c.SayHello(...): the request goes out on the secure connection,
\* or the call fails with the connection error
ClientSayHello ==
    /\ cpc = "dialed"
    /\ \/ /\ conn["client"] = "secure"
          /\ call' = [call EXCEPT !["client"] =
                        [phase |-> "sent", hasMd |-> TRUE,
                         headers |-> OauthAccessMetadata(token),
                         name |-> RequestName(cargs), out |-> NoOutcome]]
          /\ cpc' = "waiting"
          /\ clog' = clog
       \/ /\ conn["client"] = "failed"
          /\ call' = call
          /\ cpc' = "fatal"
          /\ clog' = Append(clog, "could not greet: connection error")
    /\ UNCHANGED <<cserver, ccertfile, cargs, token, caCertPool>>
    /\ UNCHANGED <<conn, interceptorCalls, handlerCalls, acceptedCalls>>
    /\ UNCHANGED svars

\* the reply or the error comes back: log.Fatalf or log.Printf
ClientReceive ==
    /\ cpc = "waiting"
    /\ call["client"].phase = "done"
    /\ IF call["client"].out.status # "OK"
       THEN /\ cpc' = "fatal"
            /\ clog' = Append(clog, "could not greet: " \o
                                    call["client"].out.status)
       ELSE /\ cpc' = "done"
            /\ clog' = Append(clog, "Greeting: " \o call["client"].out.reply)
    /\ UNCHANGED <<cserver, ccertfile, cargs, token, caCertPool>>
    /\ UNCHANGED <<svars, nvars>>

----------------------------------------------------------------------------
(* The system *)

Init ==
    /\ spc = "start"
    /\ verbose = FALSE
    /\ certfile = ""
    /\ keyfile = ""
    /\ lis = FALSE
    /\ cert = NoCert
    /\ loadErr = FALSE
    /\ loadCalled = FALSE
    /\ serveCalled = FALSE
    /\ slog = ""
    /\ cpc = "start"
    /\ cserver = "localhost"
    /\ ccertfile = ""
    /\ cargs = <<>>
    /\ token = NoToken
    /\ caCertPool = {}
    /\ clog = <<>>
    /\ conn = [c \in Conns |-> "idle"]
    /\ call = [c \in Conns |-> NoCall]
    /\ interceptorCalls = [c \in Conns |-> 0]
    /\ handlerCalls = [c \in Conns |-> 0]
    /\ acceptedCalls = 0

Next ==
    \/ ServerParseFlags
    \/ ServerListen
    \/ ServerCheckFiles
    \/ ServerLoadKeyPair
    \/ ServerServe
    \/ ClientParseFlags
    \/ ClientGetToken
    \/ ClientLoadCA
    \/ ClientDial
    \/ ClientSayHello
    \/ ClientReceive
    \/ PeerSend
    \/ \E c \in Conns : Connect(c)
    \/ \E c \in Conns : Handshake(c)
    \/ \E c \in Conns : ServerHandleCall(c)

Spec == Init /\ [][Next]_vars

----------------------------------------------------------------------------
(* Properties *)

\* the calls the server has answered
Done(c) == call[c].phase = "done"

\* no presented authorization value is accepted by the validation
Rejects(c) ==
    ~call[c].hasMd \/ validateOAUTHToken(call[c].headers, verbose).err # ""

\* C1: a call presenting a single authorization value v is accepted iff v
\* is exactly the expected bearer string, whatever the verbose flag is.
C1_SingleValueAcceptedIffExact ==
    \A c \in Conns :
        (Done(c) /\ call[c].hasMd /\ Len(call[c].headers) = 1)
            => (call[c].out.status = "OK"
                    <=> call[c].headers[1] = "Bearer rTO69tZATgSqamjQn7v9HA")

\* C2: with server and client started with only their certificate and key
\* flags, and a certificate valid for the dialed name, the client's call is
\* accepted, the handler runs and the client logs the reply "Hello world".
C2_DefaultRunGreets ==
    (/\ ~verbose
     /\ cargs = <<>>
     /\ cert.cn = cserver
     /\ cert \in caCertPool
     /\ cpc \in {"done", "fatal"}
     /\ Done("client"))
        => /\ call["client"].out.status = "OK"
           /\ handlerCalls["client"] = 1
           /\ cpc = "done"
           /\ clog = <<"Greeting: Hello world">>

\* C3: a call the interceptor rejects completes with status Unauthenticated
\* without the handler being invoked; the number of handler invocations
\* equals the number of accepted calls.
C3_RejectedNeverHandled ==
    /\ \A c \in Conns :
          (Done(c) /\ Rejects(c))
              => /\ call[c].out.status = "Unauthenticated"
                 /\ call[c].out.handled = 0
                 /\ call[c].out.reply = ""
    /\ handlerCalls["client"] + handlerCalls["peer"] = acceptedCalls

C3_Witness ==
    /\ Done("peer")
    /\ Rejects("peer")
    /\ call["peer"].headers # <<>>
    /\ acceptedCalls = 1
    /\ handlerCalls["client"] = 1

\* C4: a call presenting a list of authorization values is accepted iff at
\* least one value of the list is exactly the expected bearer string.
C4_AcceptedIffSomeExact ==
    \A c \in Conns :
        (Done(c) /\ call[c].hasMd)
            => (call[c].out.status = "OK"
                    <=> \E i \in 1..Len(call[c].headers) :
                            call[c].headers[i] = ExpectedBearer)

\* C5: a call without metadata, or whose metadata has no authorization
\* value, is rejected with Unauthenticated and the handler is not invoked.
C5_NoAuthorizationRejected ==
    \A c \in Conns :
        (Done(c) /\ (~call[c].hasMd \/ call[c].headers = <<>>))
            => /\ call[c].out.status = "Unauthenticated"
               /\ call[c].out.handled = 0
               /\ call[c].out.reply = ""

C5_Witness ==
    /\ verbose
    /\ Done("peer")
    /\ call["peer"].hasMd
    /\ call["peer"].headers = <<>>
    /\ call["peer"].out.status = "Unauthenticated"
    /\ interceptorCalls["peer"] = 1

\* the -certfile or -keyfile flag is empty or names a file that is not there
BadFileFlags ==
    \/ certfile = "" \/ keyfile = ""
    \/ ~FileExists(certfile) \/ ~FileExists(keyfile)

\* C6: if the certificate or key path is empty or names a non-existent
\* file, the server terminates without the listening socket ever opened.
C6_NoListenerAtFatalExit ==
    (spc = "fatal" /\ BadFileFlags) => ~lis

\* C7: if either flag is empty or either file does not exist, the server
\* stops at the fatal check: tls.LoadX509KeyPair and Serve are not reached.
C7_BadFilesStopBeforeLoad ==
    (spc # "start" /\ BadFileFlags)
        => /\ ~loadCalled
           /\ ~serveCalled
           /\ spc \in {"parsed", "listening", "fatal"}
           /\ cert = NoCert

C7_Witness ==
    /\ spc = "fatal"
    /\ lis
    /\ certfile = "local.crt"
    /\ keyfile = "nofile"
    /\ slog = "cannot open the key file"

\* C8: if tls.LoadX509KeyPair returns an error the server terminates and
\* never reaches Serve.
C8_LoadErrorNeverServes ==
    loadErr => (~serveCalled /\ spc # "serving")

\* C9: a call is dispatched to the interceptor or the handler only on a
\* connection whose TLS handshake has completed; a connection whose
\* handshake failed dispatches nothing.
C9_HandshakeBeforeDispatch ==
    \A c \in Conns :
        /\ (Done(c) \/ interceptorCalls[c] > 0 \/ handlerCalls[c] > 0)
              => conn[c] = "secure"
        /\ conn[c] = "failed"
              => (~Done(c) /\ interceptorCalls[c] = 0 /\ handlerCalls[c] = 0)

C9_Witness ==
    /\ conn["peer"] = "failed"
    /\ call["peer"].phase = "sent"
    /\ conn["client"] = "secure"
    /\ Done("client")

\* C10: if the dialed name differs from the common name of the server's
\* certificate, or the certificate is not rooted in the client's certfile,
\* the handshake fails, the client's call fails without a greeting logged,
\* and neither interceptor nor handler runs for it.
C10_MismatchNeverGreets ==
    (/\ spc = "serving"
     /\ cpc \in {"dialed", "waiting", "done", "fatal"}
     /\ (cert.cn # cserver \/ cert \notin caCertPool))
        => /\ conn["client"] # "secure"
           /\ cpc \in {"dialed", "fatal"}
           /\ call["client"].phase = "none"
           /\ interceptorCalls["client"] = 0
           /\ handlerCalls["client"] = 0
           /\ \A i \in 1..Len(clog) : clog[i] # "Greeting: Hello world"

C10_Witness ==
    /\ spc = "serving"
    /\ cert = [id |-> "local", cn |-> "localhost"]
    /\ caCertPool = {cert}
    /\ cserver = "mydomain.com"
    /\ conn["client"] = "failed"
    /\ cpc = "fatal"
    /\ clog = <<"could not greet: connection error">>

\* C11: for every request name n, the empty one included, the handler
\* replies exactly "Hello " followed by n with no error; two calls with the
\* same name get the same reply.
C11_ReplyIsHelloName ==
    /\ \A c \in Conns :
          (Done(c) /\ call[c].out.handled = 1)
              => /\ call[c].out.status = "OK"
                 /\ call[c].out.msg = ""
                 /\ call[c].name = "" => call[c].out.reply = "Hello "
                 /\ call[c].name = "world" => call[c].out.reply = "Hello world"
                 /\ call[c].name = "bob" => call[c].out.reply = "Hello bob"
                 /\ call[c].out.reply \in {"Hello ", "Hello world", "Hello bob"}
    /\ \A c, d \in Conns :
          (/\ Done(c) /\ Done(d)
           /\ call[c].out.handled = 1 /\ call[d].out.handled = 1
           /\ call[c].name = call[d].name)
              => call[c].out.reply = call[d].out.reply

C11_Witness ==
    /\ Done("peer")
    /\ call["peer"].name = ""
    /\ call["peer"].out.reply = "Hello "
    /\ Done("client")
    /\ call["client"].out.reply = "Hello world"

\* C12: every call the secure client sends carries the one authorization
\* value made of the token type, a space and the access token of its fixed
\* token literal, "Bearer rTO69tZATgSqamjQn7v9HA".
C12_ClientSendsBearer ==
    /\ cpc \notin {"start", "parsed"}
          => /\ token.TokenType = "Bearer"
             /\ token.AccessToken = "rTO69tZATgSqamjQn7v9HA"
    /\ call["client"].phase # "none"
          => /\ call["client"].hasMd
             /\ call["client"].headers = <<"Bearer rTO69tZATgSqamjQn7v9HA">>

C12_Witness ==
    /\ cpc = "waiting"
    /\ call["client"].phase = "sent"
    /\ call["client"].headers = <<"Bearer rTO69tZATgSqamjQn7v9HA">>

\* C13: under any interleaving of calls, the outcome of a call is decided
\* by its own authorization values and the configuration fixed at startup;
\* handling a call writes nothing of another call, the user id goes to the
\* call's own context only, and the flags and the certificate do not change
\* once the server serves.
C13_CallsIndependent ==
    [][/\ serveCalled
          => /\ verbose' = verbose
             /\ cert' = cert
             /\ certfile' = certfile
             /\ keyfile' = keyfile
       /\ \A c \in Conns :
             /\ (call[c].phase = "sent" /\ call'[c].phase = "done")
                   => /\ call'[c].hasMd = call[c].hasMd
                      /\ call'[c].headers = call[c].headers
                      /\ call'[c].name = call[c].name
                      /\ call'[c].out.accepted
                            <=> /\ call[c].hasMd
                                /\ verbose
                                /\ \E i \in 1..Len(call[c].headers) :
                                      call[c].headers[i]
                                          = "Bearer rTO69tZATgSqamjQn7v9HA"
                      /\ call'[c].out.userId
                            = (IF call'[c].out.accepted THEN 2 ELSE 0)
                      /\ \A d \in Conns \ {c} : call'[d] = call[d]
             /\ (call[c].phase = "done" /\ call'[c].phase = "done")
                   => call'[c] = call[c]]_vars

C13_Witness ==
    /\ Done("client")
    /\ Done("peer")
    /\ call["client"].out.userId = 2
    /\ call["peer"].out.userId = 0
    /\ call["peer"].headers # <<>>

\* the first position of the expected bearer string in a list, 0 if none
FirstMatch(h) ==
    IF \E i \in 1..Len(h) : h[i] = ExpectedBearer
    THEN CHOOSE i \in 1..Len(h) :
            /\ h[i] = ExpectedBearer
            /\ \A j \in 1..(i - 1) : h[j] # ExpectedBearer
    ELSE 0

\* C14: one bearer value is valid system-wide: both client programs send
\* the same authorization value and both server variants accept it.
C14_OneBearerSystemWide ==
    call["client"].phase # "none"
        => /\ OauthAccessMetadata(JsonUnmarshalToken(greeterClientTokenText))
                 = call["client"].headers
           /\ validateOAUTHToken(call["client"].headers, TRUE).err = ""
           /\ ValidationOAUTHToken(call["client"].headers, TRUE).err = ""

\* C15: the verbose flag changes only the logging: the validation of a list
\* of authorization values gives the same principal and error with the flag
\* off as with the flag on, in both server variants.
C15_VerboseOnlyLogs ==
    \A c \in Conns :
        (Done(c) /\ call[c].hasMd)
            => /\ call[c].out.userId
                     = validateOAUTHToken(call[c].headers, ~verbose).uid
               /\ validateOAUTHToken(call[c].headers, TRUE).err
                     = validateOAUTHToken(call[c].headers, FALSE).err
               /\ ValidationOAUTHToken(call[c].headers, TRUE).uid
                     = ValidationOAUTHToken(call[c].headers, FALSE).uid
               /\ ValidationOAUTHToken(call[c].headers, TRUE).err
                     = ValidationOAUTHToken(call[c].headers, FALSE).err

\* C16: an accepted call goes through metadata extraction, validation,
\* attachment of the principal under user_id and one handler invocation, in
\* this order; every accepted credential resolves to user id 2 and the
\* validation never returns a principal other than 0 with an error.
C16_AcceptedCallOrder ==
    \A c \in Conns :
        Done(c)
            => /\ call[c].out.status = "OK"
                     => /\ call[c].out.steps
                              = <<"metadata", "validate", "user_id", "handler">>
                        /\ call[c].out.handled = 1
                        /\ call[c].out.userId = 2
               /\ call[c].out.status # "OK"
                     => /\ call[c].out.userId = 0
                        /\ call[c].out.msg # ""
               /\ LET r == validateOAUTHToken(call[c].headers, verbose)
                  IN  /\ r.err # "" => r.uid = 0
                      /\ r.err = "" => r.uid = 2

C16_Witness ==
    /\ Done("peer")
    /\ call["peer"].out.status = "OK"
    /\ call["peer"].headers = <<"bearer rto69tzatgsqamjqn7v9ha",
                                "Bearer rTO69tZATgSqamjQn7v9HA">>
    /\ call["peer"].out.userId = 2

\* C17: the validation goes through the values in the order received and
\* stops at the first value that matches exactly: values after the first
\* match are not visited.
C17_StopsAtFirstMatch ==
    \A c \in Conns :
        (Done(c) /\ call[c].hasMd /\ FirstMatch(call[c].headers) # 0)
            => call[c].out.visited = FirstMatch(call[c].headers)

\* C18: every rejection caused by the presented authorization values has
\* status Unauthenticated and the one message "authentication failed - no
\* valid authorization header", which contains no presented value.
C18_UniformRejection ==
    \A c \in Conns :
        (Done(c) /\ call[c].hasMd /\ call[c].out.status # "OK")
            => /\ call[c].out.status = "Unauthenticated"
               /\ call[c].out.msg
                     = "authentication failed - no valid authorization header"
               /\ call[c].out.reply = ""

C18_Witness ==
    /\ verbose
    /\ Done("peer")
    /\ call["peer"].headers = <<"Bearer rTO69tZATgSqamjQn7v9H",
                                "Bearer rTO69tZATSgSqamjQn7v9HA">>
    /\ call["peer"].out.status = "Unauthenticated"

\* C19: a malformed token literal, or a certificate file that is
\* unspecified, missing or unreadable, ends the client with a fatal error
\* before grpc.Dial: no connection is made and no call is sent.
C19_ClientBadStartupNoRPC ==
    (cpc # "start" /\ (JsonMalformed(tokenText) \/ ~FileReadable(ccertfile)))
        => /\ cpc \in {"parsed", "token", "fatal"}
           /\ conn["client"] = "idle"
           /\ call["client"].phase = "none"
           /\ interceptorCalls["client"] = 0
           /\ cpc = "fatal" => Len(clog) = 1

C19_Witness ==
    /\ cpc = "fatal"
    /\ ccertfile = "unreadable"
    /\ spc = "serving"
    /\ cert # NoCert
    /\ conn["client"] = "idle"
    /\ clog = <<"open: cannot read the certificate file">>

\* C20: every call that reaches the interceptor ends in one of two ways:
\* no reply and an Unauthenticated error with the handler not invoked, or
\* the handler invoked once and its reply returned unchanged; the validation
\* makes at most as many comparisons as there are authorization values.
C20_TwoOutcomes ==
    \A c \in Conns :
        /\ Done(c)
              => /\ \/ /\ call[c].out.status = "Unauthenticated"
                       /\ call[c].out.reply = ""
                       /\ call[c].out.msg # ""
                       /\ call[c].out.handled = 0
                    \/ /\ call[c].out.status = "OK"
                       /\ call[c].out.msg = ""
                       /\ call[c].out.handled = 1
                       /\ call[c].name = "" => call[c].out.reply = "Hello "
                       /\ call[c].name = "world"
                             => call[c].out.reply = "Hello world"
                       /\ call[c].name = "bob"
                             => call[c].out.reply = "Hello bob"
                 /\ call[c].out.visited <= Len(call[c].headers)
                 /\ ValidationOAUTHToken(call[c].headers, verbose).visited
                       <= Len(call[c].headers)
        /\ handlerCalls[c] <= interceptorCalls[c]

C20_Witness ==
    /\ Done("client")
    /\ call["client"].out.status = "OK"
    /\ call["client"].out.reply = "Hello bob"
    /\ Done("peer")
    /\ call["peer"].out.status = "Unauthenticated"
    /\ call["peer"].out.visited = Len(call["peer"].headers)
    /\ Len(call["peer"].headers) > 1

\* C21: the secure client sends the name "world" when it has no positional
\* argument and its first positional argument otherwise; it makes one call
\* per run and logs the greeting only if the call returned no error.
C21_FirstPositionalIsName ==
    /\ call["client"].phase # "none"
          => call["client"].name
                = (IF cargs = <<>> THEN "world" ELSE cargs[1])
    /\ interceptorCalls["client"] <= 1
    /\ (\E i \in 1..Len(clog) : clog[i] = "Greeting: " \o call["client"].out.reply)
          => (Done("client") /\ call["client"].out.status = "OK")

====
